---- MODULE Spec2Model ----
(***************************************************************************)
(* Swift (swift-go): the access node's create and decode handlers, the     *)
(* form-key parser createPair, and the node's rotating secrets.            *)
(*                                                                         *)
(* Text is a sequence of one-character strings, so that the parsers        *)
(* (regexp match, time.Parse, strconv.Atoi, url.Parse) work on characters  *)
(* as the Go code does.  Go indexes from 0; where the code keeps an index  *)
(* (createPair's i) the model keeps Go's value and adds 1 when it reads    *)
(* the TLA+ sequence.                                                      *)
(***************************************************************************)
EXTENDS Integers, Sequences, FiniteSets, TLC

VARIABLES
    secrets,    \* node.secrets of the access node: sequence of secret records
    added,      \* history: every secret ever passed to addSecret
    nodeOut,    \* the last node operation and what it returned
    pairOut,    \* the last createPair call and what it returned
    config,     \* Services.config, loaded when the server starts
    req,        \* the HTTP request being handled
    resp        \* the response written for it

vars == <<secrets, added, nodeOut, pairOut, config, req, resp>>

\* ------------------------------------------------------------------ bounds

MaxSecrets == 3      \* secrets a node holds at most in the model
MaxStamp == 2        \* secret timeStamps are 1..MaxStamp
MaxName == 2         \* characters in front of the date-like tail of a form key
MaxClock == 2        \* Results write times are 0..MaxClock; decoding happens at MaxClock

\* ------------------------------------------------------------ text helpers

\* a nil error
Nil == "nil"

\* a nil pointer or a nil byte slice
NilRef == [nil |-> TRUE]

Digits == {"0", "1", "2", "3", "4", "5", "6", "7", "8", "9"}

DigitVal(c) ==
    CASE c = "0" -> 0 [] c = "1" -> 1 [] c = "2" -> 2 [] c = "3" -> 3
      [] c = "4" -> 4 [] c = "5" -> 5 [] c = "6" -> 6 [] c = "7" -> 7
      [] c = "8" -> 8 [] c = "9" -> 9

RECURSIVE DecVal(_)
\* the value of a sequence of decimal digits
DecVal(t) ==
    IF t = <<>> THEN 0
    ELSE 10 * DecVal(SubSeq(t, 1, Len(t) - 1)) + DigitVal(t[Len(t)])

AllDigits(t) == \A i \in 1..Len(t) : t[i] \in Digits

Min(S) == CHOOSE x \in S : \A y \in S : x <= y

\* Go's slice expressions on a string, with Go's 0-based bounds
SliceFrom(t, lo) == SubSeq(t, lo + 1, Len(t))
SliceTo(t, hi) == SubSeq(t, 1, hi)

\* ------------------------------------------------------------------- time

\* An instant in UTC is <<year, month, day, tick of day>>; comparing instants
\* is comparing these lexicographically.
Before(a, b) ==
    \/ a[1] < b[1]
    \/ a[1] = b[1] /\ a[2] < b[2]
    \/ a[1] = b[1] /\ a[2] = b[2] /\ a[3] < b[3]
    \/ a[1] = b[1] /\ a[2] = b[2] /\ a[3] = b[3] /\ a[4] < b[4]

isLeap(y) == y % 4 = 0 /\ (y % 100 # 0 \/ y % 400 = 0)

daysIn(m, y) ==
    IF m = 2 THEN (IF isLeap(y) THEN 29 ELSE 28)
    ELSE IF m \in {4, 6, 9, 11} THEN 30 ELSE 31

\* time.Parse("2006-01-02", t): four digits, '-', two digits, '-', two digits,
\* nothing after, month and day in range; the result is midnight UTC.
timeParseLax(t) ==
    IF /\ Len(t) >= 10
       /\ AllDigits(SubSeq(t, 1, 4)) /\ t[5] = "-"
       /\ AllDigits(SubSeq(t, 6, 7)) /\ t[8] = "-"
       /\ AllDigits(SubSeq(t, 9, 10))
       /\ DecVal(SubSeq(t, 6, 7)) \in 1..12
       /\ DecVal(SubSeq(t, 9, 10)) >= 1
       /\ DecVal(SubSeq(t, 9, 10))
              <= daysIn(DecVal(SubSeq(t, 6, 7)), DecVal(SubSeq(t, 1, 4)))
    THEN [err |-> Nil,
          t |-> <<DecVal(SubSeq(t, 1, 4)), DecVal(SubSeq(t, 6, 7)),
                  DecVal(SubSeq(t, 9, 10)), 0>>]
    ELSE [err |-> "parsing time", t |-> <<0, 0, 0, 0>>]

timeParse(t) ==
    IF /\ Len(t) = 10
       /\ AllDigits(SubSeq(t, 1, 4)) /\ t[5] = "-"
       /\ AllDigits(SubSeq(t, 6, 7)) /\ t[8] = "-"
       /\ AllDigits(SubSeq(t, 9, 10))
       /\ DecVal(SubSeq(t, 6, 7)) \in 1..12
       /\ DecVal(SubSeq(t, 9, 10)) >= 1
       /\ DecVal(SubSeq(t, 9, 10))
              <= daysIn(DecVal(SubSeq(t, 6, 7)), DecVal(SubSeq(t, 1, 4)))
    THEN [err |-> Nil,
          t |-> <<DecVal(SubSeq(t, 1, 4)), DecVal(SubSeq(t, 6, 7)),
                  DecVal(SubSeq(t, 9, 10)), 0>>]
    ELSE [err |-> "parsing time", t |-> <<0, 0, 0, 0>>]

\* ------------------------------------------------------------- createPair

conflictInvalid == "conflictInvalid"
conflictAdd == "conflictAdd"
conflictOldest == "conflictOldest"
conflictNewest == "conflictNewest"

\* the characters the pattern \<|\>|\+ matches
operationCharacterRegEx == {"<", ">", "+"}

\* regexp.FindStringIndex: nil (the empty sequence) without a match, else
\* <<start, end>> of the leftmost match, 0-based, end exclusive
FindStringIndex(k) ==
    LET hits == {j \in 1..Len(k) : k[j] \in operationCharacterRegEx}
    IN  IF hits = {} THEN <<>> ELSE <<Min(hits) - 1, Min(hits)>>

\* the switch on k[i[0]]
conflictOfSwapped(c) ==
    CASE c = "+" -> conflictAdd
      [] c = "<" -> conflictNewest
      [] c = ">" -> conflictOldest
      [] OTHER -> conflictInvalid

conflictOf(c) ==
    CASE c = "+" -> conflictAdd
      [] c = "<" -> conflictOldest
      [] c = ">" -> conflictNewest
      [] OTHER -> conflictInvalid

\* createPair(k, v); now1 and now2 are what the two calls of time.Now().UTC()
\* return (now2 is not before now1).  The result is (pair, err).
createPair(k, v, now1, now2) ==
    LET i == FindStringIndex(k)
    IN  IF i = <<>>
        THEN [p |-> NilRef, err |-> "must include an operation character"]
        ELSE IF Len(i) > 2 \/ i[2] - i[1] # 1
        THEN [p |-> NilRef, err |-> "must contain only one operation character"]
        ELSE IF conflictOf(k[i[1] + 1]) = conflictInvalid
        THEN [p |-> NilRef, err |-> "character invalid"]
        ELSE LET parsed == timeParse(SliceFrom(k, i[1] + 1))
             IN  IF parsed.err # Nil
                 THEN [p |-> NilRef, err |-> parsed.err]
                 ELSE IF Before(parsed.t, now1)
                 THEN [p |-> NilRef, err |-> "must be in the future"]
                 ELSE [p |-> [key |-> SliceTo(k, i[1]),
                              value |-> v,
                              conflict |-> conflictOf(k[i[1] + 1]),
                              created |-> now2,
                              expires |-> parsed.t],
                       err |-> Nil]

\* ------------------------------------------------------------------- node

Keys == {"k1", "k2"}
Stamps == 1..MaxStamp

\* a secret: its key and the time it was created
Secrets == [key : Keys, timeStamp : Stamps]

\* The payloads a node seals: an encoded Results (write time, then the pairs)
\* or bytes that are no Results.
StoredValues == <<[key |-> "age", value |-> "30"]>>

Plaintexts ==
    {[kind |-> "junk", writeTime |-> 0, values |-> <<>>]}
        \cup {[kind |-> "results", writeTime |-> w, values |-> StoredValues] :
                 w \in 0..MaxClock}

\* crypto.compressAndEncrypt under secret s: only the key that sealed the
\* payload opens it again
compressAndEncrypt(s, d) == [sealedWith |-> s.key, plain |-> d]

\* crypto.decryptAndDecompress under secret s: (plaintext, err)
decryptAndDecompress(s, d) ==
    IF d.sealedWith = s.key
    THEN [b |-> d.plain, err |-> Nil]
    ELSE [b |-> NilRef, err |-> "cipher: message authentication failed"]

\* node.addSecret
addSecret(list, s) == Append(list, s)

\* node.getSecret: (secret, err)
getSecret(list) ==
    IF Len(list) > 0
    THEN [s |-> list[1], err |-> Nil]
    ELSE [s |-> NilRef, err |-> "No secrets for node"]

\* node.sortSecrets: sort.Slice with less = timeStamp[i] before timeStamp[j].
\* sort.Slice is not stable, so every ascending arrangement is a possible
\* outcome.
sortSecrets(list) ==
    {t \in {[j \in 1..Len(list) |-> list[p[j]]] :
                p \in Permutations(1..Len(list))} :
        \A a, b \in 1..Len(list) :
            a < b => ~(t[b].timeStamp < t[a].timeStamp)}

\* node.encrypt: (ciphertext, err)
encrypt(list, d) ==
    IF getSecret(list).err # Nil
    THEN [b |-> NilRef, err |-> getSecret(list).err]
    ELSE [b |-> compressAndEncrypt(getSecret(list).s, d), err |-> Nil]

\* node.decrypt: (plaintext, err).  The err that is returned after the loop is
\* the one declared before it; the loop's "b, err :=" declares its own, so the
\* outer one is still nil when no secret opened the input.
decryptFirstOnly(list, d) ==
    IF Len(list) > 0 /\ decryptAndDecompress(list[1], d).err = Nil
    THEN [b |-> decryptAndDecompress(list[1], d).b, err |-> Nil]
    ELSE [b |-> NilRef, err |-> Nil]

decrypt(list, d) ==
    LET opens == {j \in 1..Len(list) : decryptAndDecompress(list[j], d).err = Nil}
    IN  IF opens # {}
        THEN [b |-> decryptAndDecompress(list[Min(opens)], d).b, err |-> Nil]
        ELSE [b |-> NilRef, err |-> Nil]

\* what a caller can hand to decrypt: a payload sealed with a key the node may
\* or may not hold, or bytes no key opens
Ciphertexts == [sealedWith : Keys \cup {"none"}, plain : Plaintexts]

NoNodeOut == [op |-> "none"]

AddSecret ==
    /\ Len(secrets) < MaxSecrets
    /\ \E s \in Secrets :
        /\ secrets' = addSecret(secrets, s)
        /\ added' = added \cup {s}
    /\ nodeOut' = [op |-> "addSecret"]
    /\ UNCHANGED <<pairOut, config, req, resp>>

SortSecrets ==
    /\ secrets' \in sortSecrets(secrets)
    /\ nodeOut' = [op |-> "sortSecrets"]
    /\ UNCHANGED <<added, pairOut, config, req, resp>>

Encrypt ==
    /\ \E d \in Plaintexts :
        nodeOut' = [op |-> "encrypt", in |-> d, out |-> encrypt(secrets, d)]
    /\ UNCHANGED <<secrets, added, pairOut, config, req, resp>>

Decrypt ==
    /\ \E d \in Ciphertexts :
        nodeOut' = [op |-> "decrypt", in |-> d, out |-> decrypt(secrets, d)]
    /\ UNCHANGED <<secrets, added, pairOut, config, req, resp>>

\* ------------------------------------------------------------- createPair
\* form keys: up to MaxName leading characters, then a date-like tail

NameChars == {"a", "+", "<", ">"}

RECURSIVE TextsUpTo(_, _)
TextsUpTo(chars, n) ==
    IF n = 0 THEN {<<>>}
    ELSE TextsUpTo(chars, n - 1)
            \cup {Append(t, c) : t \in TextsUpTo(chars, n - 1), c \in chars}

YearTexts == {<<"2", "0", "9", "9">>, <<"2", "0", "5", "0">>, <<"2", "0", "9">>}
MonthTexts == {<<"0", "1">>, <<"0", "2">>, <<"0", "6">>, <<"1", "3">>}
DayTexts == {<<"0", "1">>, <<"1", "5">>, <<"3", "0">>}
SepTexts == {<<"-">>, <<"+">>}
EndTexts == {<<>>, <<"+">>, <<"a">>}

TailTexts ==
    {y \o s \o m \o <<"-">> \o d \o e :
        y \in YearTexts, s \in SepTexts, m \in MonthTexts, d \in DayTexts,
        e \in EndTexts}

FormKeys == {n \o t : n \in TextsUpTo(NameChars, MaxName), t \in TailTexts}

FormValues == {<<"3", "0">>, <<"x">>}

\* the clock readings of the model
Nows == {<<2050, 6, 15, 0>>, <<2050, 6, 15, 1>>, <<2099, 1, 1, 0>>}

NoPairOut == [op |-> "none"]

\* one call at a time: the caller takes the result before the next call
CreatePair ==
    /\ pairOut = NoPairOut
    /\ \E k \in FormKeys, v \in FormValues, now1 \in Nows, now2 \in Nows :
        /\ ~Before(now2, now1)
        /\ pairOut' = [op |-> "createPair", k |-> k, v |-> v, now |-> now1,
                       out |-> createPair(k, v, now1, now2)]
    /\ UNCHANGED <<secrets, added, nodeOut, config, req, resp>>

\* the caller has taken createPair's result
ReturnPair ==
    /\ pairOut # NoPairOut
    /\ pairOut' = NoPairOut
    /\ UNCHANGED <<secrets, added, nodeOut, config, req, resp>>

\* ---------------------------------------------------- HandlerDecodeAsJSON

StatusOK == 200
StatusBadRequest == 400
StatusUnauthorized == 401
StatusInternalServerError == 500

\* the longest a Results stays decodable after it was written
resultsMaxAge == 1

\* DecodeResults: (results, err)
DecodeResults(d) ==
    IF d.kind = "results"
    THEN [a |-> [writeTime |-> d.writeTime, values |-> d.values], err |-> Nil]
    ELSE [a |-> NilRef, err |-> "malformed results"]

\* Results.IsTimeStampValid at clock reading now
IsTimeStampValid(a, now) == now - a.writeTime <= resultsMaxAge

\* returnAPIError: the error and its status, none of the data
returnAPIError(err, code) == [status |-> code, error |-> err, values |-> <<>>]

\* base64.RawURLEncoding.DecodeString of the data parameter: (bytes, err)
DecodeString(data) ==
    IF data.encoding = "base64url"
    THEN [b |-> data.bytes, err |-> Nil]
    ELSE [b |-> NilRef, err |-> "illegal base64 data"]

\* HandlerDecodeAsJSON from DecodeResults on: decode the plaintext, check its
\* age, marshal and write the values
writeResultsNoExpiry(d, r) ==
    IF DecodeResults(d).err # Nil
    THEN returnAPIError(DecodeResults(d).err, StatusBadRequest)
    ELSE IF r.fault = "Marshal"
    THEN returnAPIError("json", StatusInternalServerError)
    ELSE IF r.fault = "Write"
    THEN returnAPIError("write", StatusInternalServerError)
    ELSE [status |-> StatusOK, error |-> Nil, values |-> DecodeResults(d).a.values]

writeResults(d, r) ==
    IF DecodeResults(d).err # Nil
    THEN returnAPIError(DecodeResults(d).err, StatusBadRequest)
    ELSE IF IsTimeStampValid(DecodeResults(d).a, r.now) = FALSE
    THEN returnAPIError("Results expired and can no longer be decrypted",
                        StatusBadRequest)
    ELSE IF r.fault = "Marshal"
    THEN returnAPIError("json", StatusInternalServerError)
    ELSE IF r.fault = "Write"
    THEN returnAPIError("write", StatusInternalServerError)
    ELSE [status |-> StatusOK, error |-> Nil, values |-> DecodeResults(d).a.values]

\* the handler's answer to request r on a node holding the secrets in list
decodeAsJSON(list, r) ==
    IF r.fault = "ParseForm"
    THEN returnAPIError("parse form", StatusInternalServerError)
    ELSE IF r.allowed = FALSE
    THEN returnAPIError("Not authorized", StatusUnauthorized)
    ELSE IF r.fault = "getAccessNode"
    THEN returnAPIError("access node", StatusInternalServerError)
    ELSE IF DecodeString(r.data).err # Nil
    THEN returnAPIError(DecodeString(r.data).err, StatusBadRequest)
    ELSE IF decrypt(list, DecodeString(r.data).b).err # Nil
    THEN returnAPIError(decrypt(list, DecodeString(r.data).b).err,
                        StatusBadRequest)
    ELSE IF decrypt(list, DecodeString(r.data).b).b = NilRef
    THEN returnAPIError("Could not decrypt input", StatusBadRequest)
    ELSE writeResults(decrypt(list, DecodeString(r.data).b).b, r)

\* what can go wrong outside the handler's own checks, one at a time
DecodeFaults == {"none", "ParseForm", "getAccessNode", "Marshal", "Write"}

DataParams ==
    [encoding : {"base64url"}, bytes : Ciphertexts]
        \cup {[encoding |-> "malformed", bytes |-> NilRef]}

DecodeRequests ==
    [handler : {"decode"}, allowed : BOOLEAN, fault : DecodeFaults,
     data : DataParams, now : {MaxClock}]

NoRequest == [handler |-> "none"]
NoResponse == [status |-> 0, error |-> Nil, values |-> <<>>]

\* the handler runs once per request
HandlerDecodeAsJSON ==
    /\ req = NoRequest
    /\ \E r \in DecodeRequests :
        /\ req' = r
        /\ resp' = decodeAsJSON(secrets, r)
    /\ UNCHANGED <<secrets, added, nodeOut, pairOut, config>>

\* the response has been sent; the server keeps nothing of the request
Complete ==
    /\ req # NoRequest
    /\ req' = NoRequest
    /\ resp' = NoResponse
    /\ UNCHANGED <<secrets, added, nodeOut, pairOut, config>>

\* ---------------------------------------------------------------- createURL

browserWarningParam == <<"b", "r", "o", "w", "s", "e", "r", "W", "a", "r", "n", "i", "n", "g">>
titleParam == <<"t", "i", "t", "l", "e">>
messageParam == <<"m", "e", "s", "s", "a", "g", "e">>
returnURLParam == <<"r", "e", "t", "u", "r", "n", "U", "r", "l">>
progressColorParam == <<"p", "r", "o", "g", "r", "e", "s", "s", "C", "o", "l", "o", "r">>
backgroundColorParam == <<"b", "a", "c", "k", "g", "r", "o", "u", "n", "d", "C", "o", "l", "o", "r">>
messageColorParam == <<"m", "e", "s", "s", "a", "g", "e", "C", "o", "l", "o", "r">>
tableParam == <<"t", "a", "b", "l", "e">>
xforwarededfor == <<"X", "-", "F", "O", "R", "W", "A", "R", "D", "E", "D", "-", "F", "O", "R">>
remoteAddr == <<"r", "e", "m", "o", "t", "e", "A", "d", "d", "r">>
bounces == <<"b", "o", "u", "n", "c", "e", "s">>
stateParam == <<"s", "t", "a", "t", "e">>
accessKey == <<"a", "c", "c", "e", "s", "s", "K", "e", "y">>

roleAccess == 0
roleStorage == 1

isReserved(k) ==
    \/ k = titleParam
    \/ k = messageParam
    \/ k = returnURLParam
    \/ k = progressColorParam
    \/ k = messageColorParam
    \/ k = backgroundColorParam
    \/ k = tableParam
    \/ k = browserWarningParam
    \/ k = xforwarededfor
    \/ k = remoteAddr
    \/ k = bounces
    \/ k = stateParam
    \/ k = accessKey

\* url.Values.Get: the first value of the field, "" without one
Get(form, k) ==
    IF k \in DOMAIN form /\ Len(form[k]) > 0 THEN form[k][1] ELSE <<>>

\* strconv.Atoi: (value, err); an optional sign, then decimal digits only
Atoi(t) ==
    LET signed == t # <<>> /\ t[1] \in {"+", "-"}
        body == IF signed THEN Tail(t) ELSE t
    IN  IF body = <<>> \/ ~AllDigits(body)
        THEN [c |-> 0, err |-> "invalid syntax"]
        ELSE [c |-> IF signed /\ t[1] = "-" THEN 0 - DecVal(body) ELSE DecVal(body),
              err |-> Nil]

Letters ==
    {"a", "b", "c", "d", "e", "f", "g", "h", "i", "j", "k", "l", "m", "n",
     "o", "p", "q", "r", "s", "t", "u", "v", "w", "x", "y", "z"}

HexChars == Digits \cup {"a", "b", "c", "d", "e", "f"}

\* every '%' of t starts a two-digit hexadecimal escape
validEscapes(t) ==
    \A j \in 1..Len(t) :
        t[j] = "%" =>
            j + 2 <= Len(t) /\ t[j + 1] \in HexChars /\ t[j + 2] \in HexChars

\* the positions of character c in t
Positions(t, c) == {j \in 1..Len(t) : t[j] = c}

\* url.getScheme: the position of the ':' that ends the scheme, 0 when the
\* text has no scheme, -1 when it starts with ':' (missing protocol scheme)
schemeEnd(t) ==
    LET stops == {j \in 1..Len(t) :
                    \/ t[j] \notin Letters \cup Digits \cup {"+", "-", "."}
                    \/ (j = 1 /\ t[j] \notin Letters)}
    IN  IF stops = {} THEN 0
        ELSE IF t[Min(stops)] # ":" THEN 0
        ELSE IF Min(stops) = 1 THEN 0 - 1
        ELSE Min(stops)

NoParsedURL == [Scheme |-> <<>>, Opaque |-> <<>>, Host |-> <<>>, Path |-> <<>>]

\* url.Parse, last step: the host and the path are checked and kept
parseHostAndPath(scheme, host, path) ==
    IF Positions(host, ":") # {} \/ Positions(host, "%") # {}
    THEN [u |-> NoParsedURL, err |-> "invalid host"]
    ELSE IF ~validEscapes(path)
    THEN [u |-> NoParsedURL, err |-> "invalid URL escape"]
    ELSE [u |-> [Scheme |-> scheme, Opaque |-> <<>>, Host |-> host,
                 Path |-> path],
          err |-> Nil]

\* the authority ends before the first '/' of what follows the "//"
hostEnd(t) ==
    IF Positions(t, "/") = {} THEN Len(t) ELSE Min(Positions(t, "/")) - 1

\* url.Parse on what follows the scheme
parseRest(scheme, rest) ==
    IF ~(rest # <<>> /\ rest[1] = "/") /\ scheme # <<>>
    THEN [u |-> [Scheme |-> scheme, Opaque |-> rest, Host |-> <<>>,
                 Path |-> <<>>],
          err |-> Nil]
    ELSE IF ~(rest # <<>> /\ rest[1] = "/")
              /\ Positions(SubSeq(rest, 1, hostEnd(rest)), ":") # {}
    THEN [u |-> NoParsedURL,
          err |-> "first path segment in URL cannot contain colon"]
    ELSE IF /\ Len(rest) >= 2 /\ rest[1] = "/" /\ rest[2] = "/"
            /\ (scheme # <<>> \/ ~(Len(rest) >= 3 /\ rest[3] = "/"))
    THEN parseHostAndPath(scheme,
                          SubSeq(rest, 3, 2 + hostEnd(SubSeq(rest, 3, Len(rest)))),
                          SubSeq(rest, 3 + hostEnd(SubSeq(rest, 3, Len(rest))),
                                 Len(rest)))
    ELSE parseHostAndPath(scheme, <<>>, rest)

\* url.Parse for texts of letters, digits and "+-.:/%" (no user info, port,
\* query or fragment): (URL, err)
urlParse(t) ==
    IF schemeEnd(t) < 0
    THEN [u |-> NoParsedURL, err |-> "missing protocol scheme"]
    ELSE IF schemeEnd(t) > 0
    THEN parseRest(SubSeq(t, 1, schemeEnd(t) - 1),
                   SubSeq(t, schemeEnd(t) + 1, Len(t)))
    ELSE parseRest(<<>>, t)

\* URL.String
urlString(u) ==
    (IF u.Scheme # <<>> THEN u.Scheme \o <<":">> ELSE <<>>)
    \o (IF u.Opaque # <<>> THEN u.Opaque
        ELSE (IF (u.Scheme # <<>> \/ u.Host # <<>>)
                   /\ (u.Host # <<>> \/ u.Path # <<>>)
              THEN <<"/", "/">> \o u.Host ELSE <<>>)
             \o u.Path)

\* store.getNode: (node, err); the nodes the network directory holds
AccessDomain == "access.example"
StorageDomain == "storage.example"
UnknownDomain == "unknown.example"

getNode(r) ==
    IF r.fault = "getNode"
    THEN [n |-> NilRef, err |-> "store"]
    ELSE IF r.host = AccessDomain
    THEN [n |-> [domain |-> AccessDomain, network |-> "net", role |-> roleAccess],
          err |-> Nil]
    ELSE IF r.host = StorageDomain
    THEN [n |-> [domain |-> StorageDomain, network |-> "net", role |-> roleStorage],
          err |-> Nil]
    ELSE [n |-> NilRef, err |-> Nil]

NoURL == [operation |-> NilRef]

\* createURL up to the loop over the form: resolves the node, sets nodeCount,
\* returnURL, state and table.  (operation, err)
newOperation(r, cfg) ==
    LET a == getNode(r)
        f == r.form
        c == Atoi(Get(f, bounces))
        ru == urlParse(Get(f, returnURLParam))
        o == [accessNode |-> a.n.domain,
              nodeCount |-> IF Get(f, bounces) # <<>> THEN c.c ELSE cfg.NodeCount,
              returnURL |-> urlString(ru.u),
              state |-> Get(f, stateParam),
              table |-> Get(f, tableParam),
              values |-> <<>>]
    IN  IF a.err # Nil THEN [o |-> NilRef, err |-> a.err]
        ELSE IF a.n = NilRef THEN [o |-> NilRef, err |-> "is not a Swift node"]
        ELSE IF a.n.role # roleAccess
        THEN [o |-> NilRef, err |-> "is not an access node"]
        ELSE IF r.fault = "getNodes" THEN [o |-> NilRef, err |-> "store"]
        ELSE IF r.fault = "ParseForm" THEN [o |-> NilRef, err |-> "parse form"]
        ELSE IF Get(f, bounces) # <<>> /\ c.err # Nil
        THEN [o |-> NilRef, err |-> c.err]
        ELSE IF Get(f, bounces) # <<>> /\ c.c <= 0
        THEN [o |-> NilRef, err |-> "Bounces must be greater than 0"]
        ELSE IF Get(f, bounces) # <<>> /\ ~(c.c < 255)
        THEN [o |-> NilRef, err |-> "Bounces must be less than 255"]
        ELSE IF ru.err # Nil THEN [o |-> NilRef, err |-> ru.err]
        ELSE IF ru.u.Host = <<>> THEN [o |-> NilRef, err |-> "Missing host from URL"]
        ELSE IF ru.u.Scheme = <<>>
        THEN [o |-> NilRef, err |-> "Missing scheme from URL"]
        ELSE IF Get(f, tableParam) = <<>>
        THEN [o |-> NilRef, err |-> "Missing table name"]
        ELSE [o |-> o, err |-> Nil]

RECURSIVE addPairsSkippingInvalid(_, _, _, _)
addPairsSkippingInvalid(form, order, now, values) ==
    IF order = <<>> THEN [values |-> values, err |-> Nil]
    ELSE LET k == Head(order)
             made == createPair(k, form[k][1], now, now)
         IN  IF isReserved(k) = FALSE /\ Len(form[k]) > 0 /\ made.err = Nil
             THEN addPairsSkippingInvalid(form, Tail(order), now,
                                          Append(values, made.p))
             ELSE addPairsSkippingInvalid(form, Tail(order), now, values)

RECURSIVE addPairsFrom(_, _, _, _)
addPairsFrom(form, order, now, values) ==
    IF order = <<>> THEN [values |-> values, err |-> Nil]
    ELSE LET k == Head(order)
             made == createPair(k, form[k][1], now, now)
         IN  IF isReserved(k) = FALSE /\ Len(form[k]) > 0
             THEN IF made.err # Nil THEN [values |-> <<>>, err |-> made.err]
                  ELSE IF made.p.conflict = conflictInvalid
                  THEN [values |-> <<>>,
                        err |-> "Pair does not contain valid conflict flag"]
                  ELSE addPairsFrom(form, Tail(order), now, Append(values, made.p))
             ELSE addPairsFrom(form, Tail(order), now, values)

\* the loop "for k, v := range r.Form"; order is the order in which the map
\* hands out its keys.  (values, err)
addPairs(form, order, now) == addPairsFrom(form, order, now, <<>>)

\* createURL: (url, err).  The URL is the next node's address carrying the
\* encrypted operation; the model keeps the operation it carries.
createURL(r, cfg, order) ==
    LET head == newOperation(r, cfg)
        pairs == addPairs(r.form, order, r.now)
    IN  IF head.err # Nil THEN [u |-> NoURL, err |-> head.err]
        ELSE IF pairs.err # Nil THEN [u |-> NoURL, err |-> pairs.err]
        ELSE IF r.fault = "getHomeNode" THEN [u |-> NoURL, err |-> "home node"]
        ELSE IF r.fault = "getNextURL" THEN [u |-> NoURL, err |-> "next url"]
        ELSE [u |-> [operation |-> [head.o EXCEPT !.values = pairs.values]],
              err |-> Nil]

\* HandlerCreate's answer
create(r, cfg, order) ==
    LET made == createURL(r, cfg, order)
    IN  IF r.allowed = FALSE
        THEN [status |-> StatusUnauthorized, error |-> "Not authorized",
              url |-> NoURL]
        ELSE IF made.err # Nil
        THEN [status |-> StatusBadRequest, error |-> made.err, url |-> NoURL]
        ELSE IF r.fault = "Write"
        THEN [status |-> StatusInternalServerError, error |-> "write",
              url |-> NoURL]
        ELSE [status |-> StatusOK, error |-> Nil, url |-> made.u]

\* ------------------------------------------------------ the create requests

\* a form is a function from the fields present to their lists of values; it
\* is put together from entries <<field, values>>
FormOf(entries) ==
    [k \in {e[1] : e \in entries} |-> (CHOOSE e \in entries : e[1] = k)[2]]

BouncesTexts ==
    {<<"0">>, <<"1">>, <<"2", "5", "4">>, <<"2", "5", "5">>, <<"3", "0", "0">>,
     <<"x">>}

ReturnURLTexts ==
    {<<"h", "t", "t", "p", "s", ":", "/", "/", "r", "p", ".", "e", "x", "a", "m", "p", "l", "e", "/", "c", "b">>, <<"/", "/", "r", "p", ".", "e", "x", "a", "m", "p", "l", "e", "/", "c", "b">>, <<"h", "t", "t", "p", "s", ":", "/", "c", "b">>,
     <<":", "b", "a", "d">>,
     <<"h", "t", "t", "p", "s", ":", "/", "/", "r", "p", ".", "e", "x", "a", "m",
       "p", "l", "e", "/", "%", "z", "z">>}

ValidField == <<"a", "+", "2", "0", "9", "9", "-", "0", "1", "-", "0", "1">>
OtherValidField == <<"b", "<", "2", "0", "9", "9", "-", "0", "1", "-", "0", "1">>
ExpiredField == <<"b", ">", "2", "0", "0", "0", "-", "0", "1", "-", "0", "1">>

\* each set holds the alternatives for one field: absent, or present with a
\* list of values
BouncesEntries == {{}} \cup {{<<bounces, <<t>>>>} : t \in BouncesTexts}
ReturnURLEntries == {{<<returnURLParam, <<t>>>>} : t \in ReturnURLTexts}
TableEntries == {{}, {<<tableParam, <<<<"t", "1">>>>>>}}
FirstPairEntries ==
    {{}, {<<ValidField, <<>>>>}, {<<ValidField, <<<<"3", "0">>, <<"3", "1">>>>>>}}
SecondPairEntries ==
    {{}, {<<OtherValidField, <<<<"x">>>>>>}, {<<ExpiredField, <<<<"x">>>>>>}}

CreateForms ==
    {FormOf(b \cup u \cup t \cup p1 \cup p2) :
        b \in BouncesEntries, u \in ReturnURLEntries, t \in TableEntries,
        p1 \in FirstPairEntries, p2 \in SecondPairEntries}

CreateFaults ==
    {"none", "getNode", "getNodes", "ParseForm", "getHomeNode", "getNextURL",
     "Write"}

CreateRequests ==
    [handler : {"create"}, allowed : BOOLEAN,
     host : {AccessDomain, StorageDomain, UnknownDomain},
     fault : CreateFaults, form : CreateForms, now : {<<2050, 6, 15, 1>>}]

\* the sequences that list each element of S once
Orderings(S) ==
    {[j \in 1..Cardinality(S) |-> f[j]] :
        f \in {g \in [1..Cardinality(S) -> S] :
                 \A a, b \in 1..Cardinality(S) : a # b => g[a] # g[b]}}

\* the orders in which the loop over the form can visit the fields; when the
\* request fails before the loop the order is never read
rangeOrders(r, cfg) ==
    IF r.allowed = FALSE \/ newOperation(r, cfg).err # Nil
    THEN {<<>>}
    ELSE Orderings(DOMAIN r.form)

HandlerCreate ==
    /\ req = NoRequest
    /\ \E r \in CreateRequests :
        \E order \in rangeOrders(r, config) :
            /\ req' = r
            /\ resp' = create(r, config, order)
    /\ UNCHANGED <<secrets, added, nodeOut, pairOut, config>>

\* --------------------------------------------------------- specifications

InitNode ==
    /\ secrets = <<>>
    /\ added = {}
    /\ nodeOut = NoNodeOut
    /\ pairOut = NoPairOut
    /\ config = [NodeCount |-> 10]
    /\ req = NoRequest
    /\ resp = NoResponse

\* key rotation and the node's cryptography
NextNode == AddSecret \/ SortSecrets \/ Encrypt \/ Decrypt

SpecNode == InitNode /\ [][NextNode]_vars

\* the form-key parser
NextPair == CreatePair \/ ReturnPair

SpecPair == InitNode /\ [][NextPair]_vars

\* the decode endpoint of a node whose secrets rotate
NextDecode == AddSecret \/ SortSecrets \/ HandlerDecodeAsJSON \/ Complete

SpecDecode == InitNode /\ [][NextDecode]_vars

\* the two endpoints of an access node holding one secret, under each
\* configured default of the bounce count
NodeCounts == {0, 10, 255}

InitHTTP ==
    /\ secrets = <<[key |-> "k1", timeStamp |-> 1]>>
    /\ added = {[key |-> "k1", timeStamp |-> 1]}
    /\ nodeOut = NoNodeOut
    /\ pairOut = NoPairOut
    /\ config \in [NodeCount : NodeCounts]
    /\ req = NoRequest
    /\ resp = NoResponse

NextHTTP == HandlerCreate \/ HandlerDecodeAsJSON \/ Complete

SpecHTTP == InitHTTP /\ [][NextHTTP]_vars

\* ------------------------------------------------------------------ claims

\* C1: key rotation keeps old data readable.  After any sequence of addSecret
\* and sortSecrets, a payload sealed under any secret ever added to the node
\* is decrypted by node.decrypt to its original plaintext, with no error.
C1_OldSecretsStillDecrypt ==
    \A s \in added, p \in Plaintexts :
        decrypt(secrets, compressAndEncrypt(s, p)) = [b |-> p, err |-> Nil]

\* decrypt has just opened a payload sealed under an older secret of another
\* key than the newer one the node also holds
C1_Witness ==
    /\ nodeOut.op = "decrypt"
    /\ nodeOut.out.err = Nil
    /\ nodeOut.out.b = nodeOut.in.plain
    /\ \E a, b \in 1..Len(secrets) :
        /\ secrets[a].timeStamp < secrets[b].timeStamp
        /\ secrets[a].key # secrets[b].key
        /\ nodeOut.in.sealedWith = secrets[a].key

\* C2: new data is written under the newest key.  In every state of a node
\* with at least one secret, the secret getSecret returns (the one encrypt
\* uses) has the latest timeStamp of the held secrets.
C2_GetSecretIsNewest ==
    Len(secrets) > 0 =>
        \A j \in 1..Len(secrets) :
            secrets[j].timeStamp <= getSecret(secrets).s.timeStamp

\* C3: decrypt surfaces failure as an error.  Whenever decrypt returns no
\* plaintext it returns a non-nil error; never nil plaintext with nil error.
C3_DecryptFailureIsError ==
    (nodeOut.op = "decrypt" /\ nodeOut.out.b = NilRef) => nodeOut.out.err # Nil

\* C5: the decode endpoint returns the stored values only when every check
\* passed (authorized caller, valid base64url, opened by a secret of the node,
\* decodes as Results, time stamp valid); in every other case it returns an
\* error and none of the stored values.
C5_ValuesOnlyWhenChecksPass ==
    req.handler = "decode" =>
        LET passed ==
                /\ req.allowed
                /\ req.data.encoding = "base64url"
                /\ \E j \in 1..Len(secrets) :
                       secrets[j].key = req.data.bytes.sealedWith
                /\ req.data.bytes.plain.kind = "results"
                /\ req.now - req.data.bytes.plain.writeTime <= resultsMaxAge
        IN  /\ resp.values # <<>> =>
                /\ passed
                /\ resp.status = StatusOK
                /\ resp.error = Nil
                /\ resp.values = req.data.bytes.plain.values
            /\ ~passed =>
                /\ resp.values = <<>>
                /\ resp.error # Nil
                /\ resp.status >= StatusBadRequest

\* an authorized request whose data a rotated node opened and answered
C5_Witness ==
    /\ req.handler = "decode"
    /\ Len(secrets) >= 2
    /\ req.data.encoding = "base64url"
    /\ req.data.bytes.sealedWith = secrets[Len(secrets)].key
    /\ req.data.bytes.sealedWith # secrets[1].key
    /\ resp.status = StatusOK
    /\ resp.values = StoredValues

ClaimOps == {"+", "<", ">"}

OpCount(k) == Cardinality({j \in 1..Len(k) : k[j] \in ClaimOps})

\* C7: createPair fails for every form key with no operator character or with
\* more than one; it succeeds only when the key holds exactly one.
C7_ExactlyOneOperator ==
    pairOut.op = "createPair" =>
        /\ pairOut.out.err = Nil => OpCount(pairOut.k) = 1
        /\ OpCount(pairOut.k) # 1 =>
               pairOut.out.err # Nil /\ pairOut.out.p = NilRef

\* a key with a second operator character behind an otherwise valid date was
\* refused
C7_Witness ==
    /\ pairOut.op = "createPair"
    /\ OpCount(pairOut.k) = 2
    /\ Len(pairOut.k) >= 12
    /\ timeParse(SubSeq(pairOut.k, Len(pairOut.k) - 10, Len(pairOut.k) - 1)).err = Nil
    /\ pairOut.k[Len(pairOut.k)] \in ClaimOps
    /\ pairOut.out.err # Nil

\* C8: every Pair createPair returns expires strictly after the current time
\* at creation (an expiry equal to now is refused).
C8_ExpiryStrictlyAfterNow ==
    (pairOut.op = "createPair" /\ pairOut.out.err = Nil) =>
        Before(pairOut.now, pairOut.out.p.expires)

DigitChar(n) ==
    CASE n = 0 -> "0" [] n = 1 -> "1" [] n = 2 -> "2" [] n = 3 -> "3"
      [] n = 4 -> "4" [] n = 5 -> "5" [] n = 6 -> "6" [] n = 7 -> "7"
      [] n = 8 -> "8" [] n = 9 -> "9"

\* YYYY-MM-DD of a date
DateText(y, m, d) ==
    <<DigitChar(y \div 1000), DigitChar((y \div 100) % 10),
      DigitChar((y \div 10) % 10), DigitChar(y % 10), "-",
      DigitChar(m \div 10), DigitChar(m % 10), "-",
      DigitChar(d \div 10), DigitChar(d % 10)>>

\* the calendar dates of the years the form keys of the model name
ClaimDates ==
    {z \in {2050, 2099} \X (1..12) \X (1..31) :
        z[3] <= (CASE z[2] = 2 -> 28
                   [] z[2] \in {4, 6, 9, 11} -> 30
                   [] OTHER -> 31)}

ClaimDateTexts == {DateText(z[1], z[2], z[3]) : z \in ClaimDates}

\* the date a YYYY-MM-DD text names, at midnight UTC
ClaimDateOf ==
    [txt \in ClaimDateTexts |->
        LET z == CHOOSE x \in ClaimDates : DateText(x[1], x[2], x[3]) = txt
        IN  <<z[1], z[2], z[3], 0>>]

\* C9: for a form key name<op><future YYYY-MM-DD> and a value v, createPair
\* returns the Pair with key = name, value = v, expires = the date, and
\* conflict Add for '+', OldestWins for '<', NewestWins for '>'.
C9_PairFromWellFormedKey ==
    pairOut.op = "createPair" =>
        \A n \in 1..Len(pairOut.k) :
            ( /\ pairOut.k[n] \in ClaimOps
              /\ \A j \in 1..(n - 1) : pairOut.k[j] \notin ClaimOps
              /\ SubSeq(pairOut.k, n + 1, Len(pairOut.k)) \in ClaimDateTexts
              /\ Before(pairOut.now,
                        ClaimDateOf[SubSeq(pairOut.k, n + 1, Len(pairOut.k))]) )
            =>
            ( /\ pairOut.out.err = Nil
              /\ pairOut.out.p.key = SubSeq(pairOut.k, 1, n - 1)
              /\ pairOut.out.p.value = pairOut.v
              /\ pairOut.out.p.expires =
                    ClaimDateOf[SubSeq(pairOut.k, n + 1, Len(pairOut.k))]
              /\ pairOut.out.p.conflict =
                    (CASE pairOut.k[n] = "+" -> "conflictAdd"
                       [] pairOut.k[n] = "<" -> "conflictOldest"
                       [] pairOut.k[n] = ">" -> "conflictNewest") )

\* the key a<2099-01-01 gave the OldestWins pair for key a
C9_Witness ==
    /\ pairOut.op = "createPair"
    /\ pairOut.k = <<"a", "<">> \o DateText(2099, 1, 1)
    /\ pairOut.out.err = Nil
    /\ pairOut.out.p.key = <<"a">>
    /\ pairOut.out.p.conflict = conflictOldest
    /\ pairOut.out.p.expires = <<2099, 1, 1, 0>>

\* the operation the URL of a create response carries
OperationOf(r) == r.url.operation

\* C4: every Operation for which createURL returns a URL has nodeCount in
\* 1..254, a non-empty table and a returnURL with scheme and host, whether
\* nodeCount came from the bounces parameter or from the configured default;
\* a request with bounces <= 0, bounces >= 255 or no table gets an error and
\* no URL.
C4_OperationInvariant ==
    req.handler = "create" =>
        /\ resp.url # NoURL =>
            /\ OperationOf(resp).nodeCount \in 1..254
            /\ OperationOf(resp).table # <<>>
            /\ urlParse(OperationOf(resp).returnURL).err = Nil
            /\ urlParse(OperationOf(resp).returnURL).u.Scheme # <<>>
            /\ urlParse(OperationOf(resp).returnURL).u.Host # <<>>
        /\ ( \/ ( /\ Atoi(Get(req.form, <<"b", "o", "u", "n", "c", "e", "s">>)).err = Nil
                  /\ Atoi(Get(req.form, <<"b", "o", "u", "n", "c", "e", "s">>)).c \notin 1..254 )
             \/ Get(req.form, <<"t", "a", "b", "l", "e">>) = <<>> )
           => (resp.error # Nil /\ resp.url = NoURL)

\* C6: the status of a failed request reflects the failure class.  Decode: an
\* unauthorized caller receives 401; malformed, undecryptable or expired input
\* from an authorized caller receives 400; 500 is returned only for internal
\* failures (access node lookup, JSON encoding, writing).  Create: 401 to an
\* unauthorized caller, with createURL not run, and 400 to every createURL
\* error.
C6_StatusReflectsFailureClass ==
    /\ req.handler = "decode" =>
        /\ ~req.allowed => resp.status = StatusUnauthorized
        /\ ( /\ req.allowed
             /\ req.fault \in {"none", "ParseForm"}
             /\ \/ req.fault = "ParseForm"
                \/ req.data.encoding # "base64url"
                \/ \A j \in 1..Len(secrets) :
                       secrets[j].key # req.data.bytes.sealedWith
                \/ req.data.bytes.plain.kind # "results"
                \/ req.now - req.data.bytes.plain.writeTime > resultsMaxAge )
           => resp.status = StatusBadRequest
        /\ resp.status = StatusInternalServerError =>
               req.fault \in {"getAccessNode", "Marshal", "Write"}
    /\ req.handler = "create" =>
        /\ ~req.allowed => (resp.status = StatusUnauthorized /\ resp.url = NoURL)
        /\ ( /\ req.allowed
             /\ \E order \in Orderings(DOMAIN req.form) :
                    createURL(req, config, order).err # Nil )
           => resp.status = StatusBadRequest

ClaimReserved ==
    {<<"b", "r", "o", "w", "s", "e", "r", "W", "a", "r", "n", "i", "n", "g">>, <<"t", "i", "t", "l", "e">>, <<"m", "e", "s", "s", "a", "g", "e">>, <<"r", "e", "t", "u", "r", "n", "U", "r", "l">>, <<"p", "r", "o", "g", "r", "e", "s", "s", "C", "o", "l", "o", "r">>,
     <<"b", "a", "c", "k", "g", "r", "o", "u", "n", "d", "C", "o", "l", "o", "r">>, <<"m", "e", "s", "s", "a", "g", "e", "C", "o", "l", "o", "r">>, <<"t", "a", "b", "l", "e">>, <<"X", "-", "F", "O", "R", "W", "A", "R", "D", "E", "D", "-", "F", "O", "R">>,
     <<"r", "e", "m", "o", "t", "e", "A", "d", "d", "r">>, <<"b", "o", "u", "n", "c", "e", "s">>, <<"s", "t", "a", "t", "e">>, <<"a", "c", "c", "e", "s", "s", "K", "e", "y">>}

\* the non-reserved fields of the request's form that have a value
PairFields(r) ==
    {k \in DOMAIN r.form : k \notin ClaimReserved /\ Len(r.form[k]) > 0}

\* what createPair makes of field k's first value
PairOfField(r, k) == createPair(k, r.form[k][1], r.now, r.now)

\* C10: createURL is all-or-nothing.  It returns a URL only when the host is
\* a known Access node and every non-reserved field with a value yields a
\* valid Pair, and then the Operation's values are exactly one Pair per such
\* field, built from its first value, and none for a reserved field; if the
\* host is unknown or no Access node, or any field yields no valid Pair, it
\* returns an error and an empty URL.
C10_AllOrNothing ==
    req.handler = "create" =>
        /\ resp.url # NoURL =>
            /\ resp.error = Nil
            /\ req.host = AccessDomain
            /\ \A k \in PairFields(req) : PairOfField(req, k).err = Nil
            /\ Len(OperationOf(resp).values) = Cardinality(PairFields(req))
            /\ {OperationOf(resp).values[j] :
                    j \in 1..Len(OperationOf(resp).values)}
                 = {PairOfField(req, k).p : k \in PairFields(req)}
        /\ ( \/ req.host # AccessDomain
             \/ \E k \in PairFields(req) : PairOfField(req, k).err # Nil )
           => (resp.error # Nil /\ resp.url = NoURL)

\* a create request with two storage fields, one of them with two values, was
\* answered with a URL whose operation holds the two pairs
C10_Witness ==
    /\ req.handler = "create"
    /\ resp.url # NoURL
    /\ Cardinality(PairFields(req)) = 2
    /\ \E k \in PairFields(req) : Len(req.form[k]) = 2
    /\ Len(OperationOf(resp).values) = 2
    /\ \E j \in 1..2 :
           /\ OperationOf(resp).values[j].key = <<"a">>
           /\ OperationOf(resp).values[j].value = <<"3", "0">>

====
